---- MODULE Spec2Model ----
(***************************************************************************)
(* A/B experiment service (ab-exp): the experiment variant model, the      *)
(* deterministic assignment, the statistics engine and the SQLite          *)
(* repository behind them.                                                  *)
(*                                                                         *)
(* Seven specifications live here.                                         *)
(*   PureSpec   the domain layer alone: a request body is validated        *)
(*              (try_into_domain / ExperimentVariants::new) and, when it   *)
(*              is valid, an identity is assigned a variant.               *)
(*   Spec       the service: create, finish, device query, listing and     *)
(*              statistics requests over the three SQLite tables, each     *)
(*              request running alone.                                     *)
(*   QuerySpec  Spec without the two read-only listings.                   *)
(*   StatisticsSpec  QuerySpec with the statistics request.                *)
(*   PatchSpec  create requests and the PATCH handler with its test of     *)
(*              the Authorization header.                                  *)
(*   RaceSpec   finish requests in flight together: a request reads the    *)
(*              clock when it begins and runs its UPDATE later.            *)
(*   DeviceRaceSpec  device queries in flight together: a query reads the  *)
(*              clock when it begins and runs its INSERT later.            *)
(*                                                                         *)
(* Numbers.  The program computes in IEEE-754 binary64.  An f64 is modelled *)
(* exactly: a non-negative value x is the integer x * 2^64 written as five  *)
(* 16-bit limbs, least significant first, and every arithmetic operation    *)
(* rounds its exact result to 53 significant bits, ties to even.  A         *)
(* distribution is written in the state by its decimal literal in tenths    *)
(* of a percent (333 is the literal 33.3); F64(n) is the binary64 value the *)
(* program holds for that literal.                                          *)
(***************************************************************************)
EXTENDS Integers, Sequences, FiniteSets, Bags, TLC

(***************************************************************************)
(* Bounds of the model.                                                    *)
(***************************************************************************)
MaxVariants == 4
MaxExperiments == 1
MaxTime == 1
MaxInFlight == 2

(***************************************************************************)
(* binary64 arithmetic on limbs.                                           *)
(***************************************************************************)
Base == 65536
LimbBits == 16
NLimbs == 5
FracLimbs == 4
Significand == 53

\* the integer n (0 <= n < 65536) as a fixed-point number
Limbs(n) == [i \in 1..NLimbs |-> IF i = FracLimbs + 1 THEN n ELSE 0]

Bit(a, i) == (a[(i \div LimbBits) + 1] \div (2 ^ (i % LimbBits))) % 2

TopLimb(a) == CHOOSE j \in 1..NLimbs : a[j] # 0 /\ \A k \in (j + 1)..NLimbs : a[k] = 0

BitLen(a) ==
    IF \A j \in 1..NLimbs : a[j] = 0 THEN 0
    ELSE LET j == TopLimb(a)
         IN LimbBits * (j - 1)
              + (CHOOSE b \in 1..LimbBits : 2 ^ (b - 1) <= a[j] /\ a[j] < 2 ^ b)

RECURSIVE AddFrom(_, _, _, _)
AddFrom(a, b, i, c) ==
    IF i > NLimbs THEN <<>>
    ELSE LET s == a[i] + b[i] + c
         IN <<s % Base>> \o AddFrom(a, b, i + 1, s \div Base)

RECURSIVE SubFrom(_, _, _, _)
SubFrom(a, b, i, c) ==
    IF i > NLimbs THEN <<>>
    ELSE LET s == a[i] - b[i] - c
         IN <<s % Base>> \o SubFrom(a, b, i + 1, IF s < 0 THEN 1 ELSE 0)

RECURSIVE MulFrom(_, _, _, _)
MulFrom(a, m, i, c) ==
    IF i > NLimbs THEN <<>>
    ELSE LET s == a[i] * m + c
         IN <<s % Base>> \o MulFrom(a, m, i + 1, s \div Base)

RECURSIVE DivFrom(_, _, _, _)
DivFrom(a, d, i, r) ==
    IF i = 0 THEN [q |-> <<>>, r |-> r]
    ELSE LET cur == r * Base + a[i]
             low == DivFrom(a, d, i - 1, cur % d)
         IN [q |-> Append(low.q, cur \div d), r |-> low.r]

\* a < b
F64Lt(a, b) == \E i \in 1..NLimbs : a[i] < b[i] /\ \A j \in (i + 1)..NLimbs : a[j] = b[j]

\* a <= b
F64Le(a, b) == ~ F64Lt(b, a)

TruncBelow(a, k) ==
    [i \in 1..NLimbs |->
        IF LimbBits * i <= k THEN 0
        ELSE IF LimbBits * (i - 1) >= k THEN a[i]
        ELSE a[i] - (a[i] % (2 ^ (k - LimbBits * (i - 1))))]

Pow2(k) == [i \in 1..NLimbs |-> IF i = (k \div LimbBits) + 1 THEN 2 ^ (k % LimbBits) ELSE 0]

\* round the exact value a (plus a non-zero tail below its last bit when
\* sticky) to 53 significant bits, to nearest, ties to even
RoundSticky(a, sticky) ==
    LET drop == BitLen(a) - Significand
    IN IF drop <= 0 THEN a
       ELSE LET low == sticky \/ \E i \in 0..(drop - 2) : Bit(a, i) = 1
                up == Bit(a, drop - 1) = 1 /\ (low \/ Bit(a, drop) = 1)
            IN IF up THEN AddFrom(TruncBelow(a, drop), Pow2(drop), 1, 0)
               ELSE TruncBelow(a, drop)

Round(a) == RoundSticky(a, FALSE)

\* the binary64 nearest to n / d
F64Ratio(n, d) == LET p == DivFrom(Limbs(n), d, NLimbs, 0) IN RoundSticky(p.q, p.r # 0)

F64Add(a, b) == Round(AddFrom(a, b, 1, 0))

\* (a - b).abs()
F64AbsDiff(a, b) ==
    IF F64Lt(a, b) THEN Round(SubFrom(b, a, 1, 0)) ELSE Round(SubFrom(a, b, 1, 0))

F64Zero == Limbs(0)
F64Hundred == Limbs(100)

(***************************************************************************)
(* Inputs.                                                                 *)
(***************************************************************************)
\* decimal literals of distributions, in tenths of a percent
PureDistributions == {-1000, 0, 1, 50, 100, 333, 415, 600, 750, 1000, 1001}

DataLabels == <<"10", "20", "50", "5", "7", "9">>

\* request bodies of the service: an accepted and a rejected body of
\* experiment_tests
BodyUrl ==
    << [distribution |-> 333, data |-> "version-1-url"],
       [distribution |-> 333, data |-> "version-2-url"],
       [distribution |-> 333, data |-> "version-3-url"] >>
BodyInvalid ==
    << [distribution |-> 600, data |-> "version-1-url"],
       [distribution |-> 415, data |-> "version-2-url"] >>
RequestBodies == {BodyUrl, BodyInvalid}

DistributionLiterals ==
    PureDistributions
      \cup UNION { {b[i].distribution : i \in 1..Len(b)} : b \in RequestBodies }
      \cup {0, 1000}

\* the binary64 of a literal; a negative literal is a whole number here, kept
\* with its sign in the top limb
F64Table ==
    [n \in DistributionLiterals |->
        IF n < 0 THEN [i \in 1..NLimbs |-> IF i = NLimbs THEN n \div 10 ELSE 0]
        ELSE F64Ratio(n, 10)]
F64(n) == F64Table[n]

DeviceTest == "550e8400-e29b-41d4-a716-446655440000"
DeviceTail == "abffad31-38e1-4a18-955e-f642924c02cf"
DeviceIds == {DeviceTest, DeviceTail}

\* identities of which only the digest prefix is given
DigestZero == "sha256=0000000000000000.."
DigestBoundary == "sha256=c000000000000000.."
DigestMax == "sha256=ffffffffffffffff.."
Identities == DeviceIds \cup {DigestZero, DigestBoundary, DigestMax}

\* the first 8 bytes of SHA-256(identity) as a big-endian u64, in limbs
Sha256First8(hash_input) ==
    CASE hash_input = DeviceTest -> <<51890, 38706, 57837, 41897, 0>>
      [] hash_input = DeviceTail -> <<6751, 64571, 601, 65522, 0>>
      [] hash_input = DigestZero -> <<0, 0, 0, 0, 0>>
      [] hash_input = DigestBoundary -> <<0, 0, 0, 49152, 0>>
      [] hash_input = DigestMax -> <<65535, 65535, 65535, 65535, 0>>

(***************************************************************************)
(* Domain layer: value objects, ExperimentVariants.                        *)
(***************************************************************************)
EPSILON == F64Ratio(2, 10)

\* a test that lets 0 through: value < 0.0 || value > 100.0
VariantDistributionNewZero(value) ==
    IF F64Lt(value, F64Zero) \/ F64Lt(F64Hundred, value)
    THEN "VariantDistributionInvalidError" ELSE "Ok"

\* value <= 0.0 || value > 100.0
VariantDistributionNew(value) ==
    IF F64Le(value, F64Zero) \/ F64Lt(F64Hundred, value)
    THEN "VariantDistributionInvalidError" ELSE "Ok"

VariantDataNew(raw_data) == IF raw_data = "" THEN "VariantDataEmptyError" ELSE "Ok"

RECURSIVE SumFrom(_, _, _)
\* distributions.iter().map(|d| d.0).sum()
SumFrom(distributions, i, acc) ==
    IF i > Len(distributions) THEN acc
    ELSE SumFrom(distributions, i + 1, F64Add(acc, distributions[i]))

validate_distribution(distributions) ==
    IF distributions = <<>> THEN "DistributionSumError"
    ELSE IF F64Lt(EPSILON, F64AbsDiff(SumFrom(distributions, 1, F64Zero), F64Hundred))
         THEN "DistributionSumError"
         ELSE "Ok"

ExperimentVariantsNewOf(variants) ==
    validate_distribution([i \in 1..Len(variants) |-> F64(variants[i].distribution)])

\* ExperimentVariants::new; its outcome on the bodies of the service is kept
NewMemo == [b \in RequestBodies |-> ExperimentVariantsNewOf(b)]
ExperimentVariantsNew(variants) ==
    IF variants \in RequestBodies THEN NewMemo[variants] ELSE ExperimentVariantsNewOf(variants)

\* a normalization against i64::MAX: (hash_value as f64 / i64::MAX as f64) * 100.0
NormalizedSigned(hash_value) == Round(MulFrom(Round(hash_value), 200, 1, 0))

\* (hash_value as f64 / u64::MAX as f64) * 100.0
Normalized(hash_value) == Round(MulFrom(Round(hash_value), 100, 1, 0))

RECURSIVE AssignWalkNoFallback(_, _, _, _)
\* the walk without the fallback to the last variant
AssignWalkNoFallback(variants, normalized, i, cumulative) ==
    IF i > Len(variants) THEN "panic"
    ELSE LET next == F64Add(cumulative, F64(variants[i].distribution))
         IN IF F64Lt(normalized, next) THEN variants[i].data
            ELSE AssignWalkNoFallback(variants, normalized, i + 1, next)

RECURSIVE AssignWalkInclusive(_, _, _, _)
\* the walk with the comparison normalized <= cumulative
AssignWalkInclusive(variants, normalized, i, cumulative) ==
    IF i > Len(variants)
    THEN IF variants = <<>> THEN "panic" ELSE variants[Len(variants)].data
    ELSE LET next == F64Add(cumulative, F64(variants[i].distribution))
         IN IF ~ F64Lt(next, normalized) THEN variants[i].data
            ELSE AssignWalkInclusive(variants, normalized, i + 1, next)

RECURSIVE AssignWalkFirst(_, _, _, _)
\* the walk with a fallback to the first variant
AssignWalkFirst(variants, normalized, i, cumulative) ==
    IF i > Len(variants)
    THEN IF variants = <<>> THEN "panic" ELSE variants[1].data
    ELSE LET next == F64Add(cumulative, F64(variants[i].distribution))
         IN IF F64Lt(normalized, next) THEN variants[i].data
            ELSE AssignWalkFirst(variants, normalized, i + 1, next)

RECURSIVE AssignWalk(_, _, _, _)
\* the cumulative walk of assign_variant and its fallback
AssignWalk(variants, normalized, i, cumulative) ==
    IF i > Len(variants)
    THEN IF variants = <<>> THEN "panic" ELSE variants[Len(variants)].data
    ELSE LET next == F64Add(cumulative, F64(variants[i].distribution))
         IN IF F64Lt(normalized, next) THEN variants[i].data
            ELSE AssignWalk(variants, normalized, i + 1, next)

assign_variant_of(variants, hash_input) ==
    AssignWalk(variants, Normalized(Sha256First8(hash_input)), 1, F64Zero)

\* ExperimentVariants::assign_variant; its value for the bodies and devices of
\* the service is kept
AssignMemo == [b \in RequestBodies |-> [id \in DeviceIds |-> assign_variant_of(b, id)]]
assign_variant(variants, hash_input) ==
    IF variants \in RequestBodies /\ hash_input \in DeviceIds
    THEN AssignMemo[variants][hash_input]
    ELSE assign_variant_of(variants, hash_input)

\* the variants part of CreateExperimentHttpRequestBody::try_into_domain
RECURSIVE ParseVariants(_, _)
ParseVariants(body, i) ==
    IF i > Len(body) THEN "Ok"
    ELSE IF VariantDataNew(body[i].data) # "Ok" THEN VariantDataNew(body[i].data)
    ELSE IF VariantDistributionNew(F64(body[i].distribution)) # "Ok"
         THEN VariantDistributionNew(F64(body[i].distribution))
    ELSE ParseVariants(body, i + 1)

TryIntoDomainVariants(body) ==
    IF ParseVariants(body, 1) # "Ok" THEN ParseVariants(body, 1)
    ELSE ExperimentVariantsNew(body)

(***************************************************************************)
(* State.                                                                  *)
(***************************************************************************)
VARIABLES
    experiments,          \* table experiments, rows in rowid order
    experiment_variants,  \* table experiment_variants, rows in rowid order
    devices,              \* table devices, rows in rowid order
    clock,                \* Utc::now()
    pending,              \* bag of requests that have run part of their handler
    last,                 \* the response of the request that completed last
    body,                 \* PureSpec: the variants of the request body
    parsed,               \* PureSpec: outcome of validating body
    identity,             \* PureSpec: the identity assigned last
    assigned              \* PureSpec: the data assign_variant returned

vars ==
    <<experiments, experiment_variants, devices, clock, pending, last,
      body, parsed, identity, assigned>>
dbVars == <<experiments, experiment_variants, devices, clock, pending, last>>
pureVars == <<body, parsed, identity, assigned>>

\* finished_at IS NULL (None); timestamps are 0..MaxTime
NULL == -1

DbInit ==
    /\ experiments = <<>>
    /\ experiment_variants = <<>>
    /\ devices = <<>>
    /\ clock = 0
    /\ pending = EmptyBag
    /\ last = [op |-> "none"]

(***************************************************************************)
(* PureSpec.                                                               *)
(***************************************************************************)
\* the variants of distributions f[1..n], in order
PureBody(n, f) == [i \in 1..n |-> [distribution |-> f[i], data |-> DataLabels[i]]]

\* the same body with one data for all its variants (ExperimentVariants::new
\* does not compare the data of the variants)
PureBodySame(n, f) == [i \in 1..n |-> [distribution |-> f[i], data |-> DataLabels[1]]]

PureInit ==
    /\ DbInit
    /\ \E n \in 0..MaxVariants : \E f \in [1..n -> PureDistributions] :
          body \in {PureBody(n, f), PureBodySame(n, f)}
    /\ parsed = "pending"
    /\ identity = "none"
    /\ assigned = "none"

PureParse ==
    /\ parsed = "pending"
    /\ parsed' = TryIntoDomainVariants(body)
    /\ UNCHANGED <<body, identity, assigned>>
    /\ UNCHANGED dbVars

PureAssign ==
    /\ parsed = "Ok"
    /\ identity = "none"
    /\ \E id \in Identities :
         /\ identity' = id
         /\ assigned' = assign_variant(body, id)
    /\ UNCHANGED <<body, parsed>>
    /\ UNCHANGED dbVars

PureNext == PureParse \/ PureAssign

PureSpec == PureInit /\ [][PureNext]_vars

(***************************************************************************)
(* Repository (outbound/sqlite.rs) and service (domain/experiment).        *)
(***************************************************************************)
\* an id no experiment was ever created with
UnknownId == 0

RawNames == {" price", "color", "  "}

\* raw_name.trim()
Trim(raw_name) ==
    CASE raw_name = " price" -> "price"
      [] raw_name = "  " -> ""
      [] OTHER -> raw_name

ExperimentNameNew(raw_name) ==
    IF Trim(raw_name) = "" THEN "ExperimentNameEmptyError" ELSE "Ok"

\* the order in which a table hands its rows to a SELECT that has no ORDER BY:
\* the order in which they were inserted
StoredOrder(rows) == rows

\* a reload that sorts the rows: ORDER BY data DESC
SelectVariantsSorted(id) ==
    LET Match(row) == row.experiment_id = id
        rows == SelectSeq(StoredOrder(experiment_variants), Match)
        n == Len(rows)
    IN [i \in 1..n |-> [distribution |-> rows[n + 1 - i].distribution,
                        data |-> rows[n + 1 - i].data]]

\* SELECT data, distribution FROM experiment_variants WHERE experiment_id = $1
SelectVariants(id) ==
    LET Match(row) == row.experiment_id = id
        rows == SelectSeq(StoredOrder(experiment_variants), Match)
    IN [i \in 1..Len(rows) |-> [distribution |-> rows[i].distribution, data |-> rows[i].data]]

\* one row of experiments as get_all_experiments rebuilds it, or the error
\* that makes the whole call fail
LoadExperiment(row) ==
    LET variants == SelectVariants(row.id)
    IN IF ExperimentNameNew(row.name) # "Ok" THEN [err |-> ExperimentNameNew(row.name)]
       ELSE IF ParseVariants(variants, 1) # "Ok" THEN [err |-> ParseVariants(variants, 1)]
       ELSE IF ExperimentVariantsNew(variants) # "Ok" THEN [err |-> "Unknown"]
       ELSE [err |-> "Ok", id |-> row.id, name |-> Trim(row.name), variants |-> variants,
             created_at |-> row.created_at, finished_at |-> row.finished_at]

\* a listing that hides finished experiments
get_all_experimentsActive ==
    LET Active(row) == row.finished_at = NULL
        rows == SelectSeq(experiments, Active)
    IN [err |-> "Ok", value |-> [i \in 1..Len(rows) |-> LoadExperiment(rows[i])]]

\* SELECT id, name, created_at, finished_at FROM experiments, then one
\* reload of the variants per row
get_all_experiments ==
    LET loaded == [i \in 1..Len(experiments) |-> LoadExperiment(experiments[i])]
    IN IF \E i \in 1..Len(loaded) : loaded[i].err # "Ok"
       THEN [err |-> (loaded[CHOOSE i \in 1..Len(loaded) :
                               loaded[i].err # "Ok"
                               /\ \A j \in 1..(i - 1) : loaded[j].err = "Ok"]).err,
             value |-> <<>>]
       ELSE [err |-> "Ok", value |-> loaded]

get_all_devices == devices

\* an assignment seeded by the time of the request: at an odd clock the
\* hash input is the id of another device
DeviceExperimentOfSeeded(device, exp) ==
    LET other == CHOOSE id \in DeviceIds : id # device.id
        hash_input == IF clock % 2 = 0 THEN device.id ELSE other
    IN [id |-> exp.id, name |-> exp.name, data |-> assign_variant(exp.variants, hash_input)]

\* the map closure of get_all_device_participating_experiments
DeviceExperimentOf(device, exp) ==
    [id |-> exp.id, name |-> exp.name, data |-> assign_variant(exp.variants, device.id)]

\* a filter that keeps the experiments created at or before the device
DeviceExperimentsOlder(device, exps) ==
    LET Live(exp) == exp.created_at <= device.created_at /\ exp.finished_at = NULL
        live == SelectSeq(exps, Live)
    IN [i \in 1..Len(live) |-> DeviceExperimentOf(device, live[i])]

\* the filter without its finished_at test: finished experiments stay live
DeviceExperimentsWithFinished(device, exps) ==
    LET Live(exp) == exp.created_at >= device.created_at
        live == SelectSeq(exps, Live)
    IN [i \in 1..Len(live) |-> DeviceExperimentOf(device, live[i])]

\* the filter and map of get_all_device_participating_experiments
DeviceExperiments(device, exps) ==
    LET Live(exp) == exp.created_at >= device.created_at /\ exp.finished_at = NULL
        live == SelectSeq(exps, Live)
    IN [i \in 1..Len(live) |-> DeviceExperimentOf(device, live[i])]

\* (assigned_total_devices as f64 / total_devices as f64) * 100.0
PercentageOf(assigned_total_devices, total_devices) ==
    IF total_devices = 0 THEN "NaN"
    ELSE Round(MulFrom(F64Ratio(assigned_total_devices, total_devices), 100, 1, 0))

PercentageMemo ==
    [a \in 0..Cardinality(DeviceIds) |->
        [t \in 0..Cardinality(DeviceIds) |-> PercentageOf(a, t)]]
Percentage(assigned_total_devices, total_devices) ==
    PercentageMemo[assigned_total_devices][total_devices]

\* statistics whose participants are the devices first seen at or after the
\* creation of the experiment
StatisticsOfLaterDevices(exp, devs) ==
    LET Participates(dev) == dev.created_at > exp.created_at
        participants == SelectSeq(devs, Participates)
        total_devices == Len(participants)
        variants_data ==
            [i \in 1..total_devices |-> assign_variant(exp.variants, participants[i].id)]
        StatisticsVariant(variant) ==
            LET assigned_total_devices ==
                    Cardinality({i \in 1..total_devices : variants_data[i] = variant.data})
            IN [data |-> variant.data, total_devices |-> assigned_total_devices,
                percentage_devices |-> Percentage(assigned_total_devices, total_devices)]
    IN [id |-> exp.id, name |-> exp.name, total_devices |-> total_devices,
        variants |-> [i \in 1..Len(exp.variants) |-> StatisticsVariant(exp.variants[i])]]

\* statistics whose variant counts run over all the devices, participants
\* or not
StatisticsOfAllDevices(exp, devs) ==
    LET Participates(dev) == exp.created_at >= dev.created_at
        participants == SelectSeq(devs, Participates)
        total_devices == Len(participants)
        variants_data ==
            [i \in 1..Len(devs) |-> assign_variant(exp.variants, devs[i].id)]
        StatisticsVariant(variant) ==
            LET assigned_total_devices ==
                    Cardinality({i \in 1..Len(devs) : variants_data[i] = variant.data})
            IN [data |-> variant.data, total_devices |-> assigned_total_devices,
                percentage_devices |-> Percentage(assigned_total_devices, Len(devs))]
    IN [id |-> exp.id, name |-> exp.name, total_devices |-> total_devices,
        variants |-> [i \in 1..Len(exp.variants) |-> StatisticsVariant(exp.variants[i])]]

\* statistics that leave out the variants no participant is assigned to
StatisticsOfMatched(exp, devs) ==
    LET Participates(dev) == exp.created_at >= dev.created_at
        participants == SelectSeq(devs, Participates)
        total_devices == Len(participants)
        variants_data ==
            [i \in 1..total_devices |-> assign_variant(exp.variants, participants[i].id)]
        Matched(variant) == \E i \in 1..total_devices : variants_data[i] = variant.data
        matched == SelectSeq(exp.variants, Matched)
        StatisticsVariant(variant) ==
            LET assigned_total_devices ==
                    Cardinality({i \in 1..total_devices : variants_data[i] = variant.data})
            IN [data |-> variant.data, total_devices |-> assigned_total_devices,
                percentage_devices |-> Percentage(assigned_total_devices, total_devices)]
    IN [id |-> exp.id, name |-> exp.name, total_devices |-> total_devices,
        variants |-> [i \in 1..Len(matched) |-> StatisticsVariant(matched[i])]]

\* the closure of Service::get_statistics that maps one experiment to its
\* StaticticsExperiment
StatisticsOf(exp, devs) ==
    LET Participates(dev) == exp.created_at >= dev.created_at
        participants == SelectSeq(devs, Participates)
        total_devices == Len(participants)
        variants_data ==
            [i \in 1..total_devices |-> assign_variant(exp.variants, participants[i].id)]
        StatisticsVariant(variant) ==
            LET assigned_total_devices ==
                    Cardinality({i \in 1..total_devices : variants_data[i] = variant.data})
            IN [data |-> variant.data, total_devices |-> assigned_total_devices,
                percentage_devices |-> Percentage(assigned_total_devices, total_devices)]
    IN [id |-> exp.id, name |-> exp.name, total_devices |-> total_devices,
        variants |-> [i \in 1..Len(exp.variants) |-> StatisticsVariant(exp.variants[i])]]

get_statistics(devs) ==
    LET all == get_all_experiments
    IN IF all.err # "Ok" THEN [err |-> all.err, value |-> <<>>]
       ELSE [err |-> "Ok",
             value |-> [i \in 1..Len(all.value) |-> StatisticsOf(all.value[i], devs)]]

\* a finish request between reading the clock and running its UPDATE
FinishRequest(id, now, began_active) == [id |-> id, now |-> now, began_active |-> began_active]

InFlight == BagCardinality(pending)
Finish(c) == pending (-) SetToBag({c})
Start(c) == pending (+) SetToBag({c})

\* Uuid::new_v4(): the ids are numbered in the order they are drawn
NewId == Len(experiments) + 1

HasExperiment(id) == \E i \in 1..Len(experiments) : experiments[i].id = id
ExperimentRow(id) == experiments[CHOOSE i \in 1..Len(experiments) : experiments[i].id = id]
HasDevice(id) == \E i \in 1..Len(devices) : devices[i].id = id
DeviceRow(id) == devices[CHOOSE i \in 1..Len(devices) : devices[i].id = id]

Init ==
    /\ DbInit
    /\ body = <<>>
    /\ parsed = "unused"
    /\ identity = "none"
    /\ assigned = "none"

\* Utc::now() moves on
Tick ==
    /\ clock < MaxTime
    /\ clock' = clock + 1
    /\ UNCHANGED <<experiments, experiment_variants, devices, pending, last>>
    /\ UNCHANGED pureVars

\* the unique index on experiments.name: an INSERT of a name that a row
\* already has fails with code 2067
NameTaken(rows, name) == \E i \in 1..Len(rows) : rows[i].name = name

\* the variant rows save_experiment_variants inserts for one experiment
VariantRows(id, variants) ==
    [i \in 1..Len(variants) |->
       [experiment_id |-> id, data |-> variants[i].data,
        distribution |-> variants[i].distribution]]

\* a create without the transaction: the variant rows are written before the
\* experiment row and stay when the insert of the experiment fails
create_experimentNoTransaction(rows, variant_rows, id, name, variants, now) ==
    IF NameTaken(rows, name)
    THEN [err |-> "Duplicate", experiments |-> rows,
          experiment_variants |-> variant_rows \o VariantRows(id, variants)]
    ELSE [err |-> "Ok",
          experiments |-> Append(rows, [id |-> id, name |-> name, created_at |-> now,
                                        finished_at |-> NULL]),
          experiment_variants |-> variant_rows \o VariantRows(id, variants)]

\* Sqlite::create_experiment: save_experiment and save_experiment_variants in
\* one transaction; a failed insert of the experiment returns before anything
\* is committed
create_experiment(rows, variant_rows, id, name, variants, now) ==
    IF NameTaken(rows, name)
    THEN [err |-> "Duplicate", experiments |-> rows, experiment_variants |-> variant_rows]
    ELSE [err |-> "Ok",
          experiments |-> Append(rows, [id |-> id, name |-> name, created_at |-> now,
                                        finished_at |-> NULL]),
          experiment_variants |-> variant_rows \o VariantRows(id, variants)]

\* POST /api/experiments: try_into_domain, then Sqlite::create_experiment
CreateExperiment ==
    /\ \E raw_name \in RawNames, b \in RequestBodies :
           LET name == Trim(raw_name)
               invalid ==
                   IF ExperimentNameNew(raw_name) # "Ok" THEN ExperimentNameNew(raw_name)
                   ELSE TryIntoDomainVariants(b)
               id == NewId
               created == create_experiment(experiments, experiment_variants, id, name, b, clock)
           IN IF invalid # "Ok"
              THEN /\ last' = [op |-> "create", result |-> invalid, id |-> UnknownId]
                   /\ UNCHANGED <<experiments, experiment_variants>>
              ELSE /\ Len(created.experiments) <= MaxExperiments
                   /\ experiments' = created.experiments
                   /\ experiment_variants' = created.experiment_variants
                   /\ last' = IF created.err = "Ok"
                              THEN [op |-> "create", result |-> "Ok", id |-> id,
                                    name |-> name, variants |-> b]
                              ELSE [op |-> "create", result |-> created.err,
                                    id |-> UnknownId, name |-> name]
    /\ UNCHANGED <<devices, clock, pending>>
    /\ UNCHANGED pureVars

\* a finish that removes the row instead of updating it
FinishUpdateDelete(rows, id, now) ==
    LET Kept(row) == row.id # id IN SelectSeq(rows, Kept)

\* an UPDATE that toggles: it clears finished_at of a finished experiment
FinishUpdateToggle(rows, id, now) ==
    [i \in 1..Len(rows) |->
        IF rows[i].id = id
        THEN [rows[i] EXCEPT !.finished_at = IF rows[i].finished_at = NULL THEN now ELSE NULL]
        ELSE rows[i]]

\* UPDATE experiments SET finished_at = $1 WHERE id = $2
FinishUpdate(rows, id, now) ==
    [i \in 1..Len(rows) |->
        IF rows[i].id = id THEN [rows[i] EXCEPT !.finished_at = now] ELSE rows[i]]

\* what Sqlite::finish_experiment returns after its UPDATE
FinishResult(rows, id) == "Ok"

IsActive(id) == HasExperiment(id) /\ ExperimentRow(id).finished_at = NULL
IsFinished(id) == HasExperiment(id) /\ ExperimentRow(id).finished_at # NULL

\* the ids a client can name: those it was given, and one nobody was given
KnownIds == {experiments[i].id : i \in 1..Len(experiments)} \cup {UnknownId}

\* the response of a finish request, with what held when it began and when
\* its UPDATE ran
FinishResponse(id, began_active) ==
    [op |-> "finish", id |-> id, result |-> FinishResult(experiments, id),
     existed |-> HasExperiment(id), was_finished |-> IsFinished(id),
     began_active |-> began_active]

\* PATCH /api/experiments/{id} with the configured token:
\* Sqlite::finish_experiment as one step
FinishExperiment ==
    /\ \E id \in KnownIds :
         /\ experiments' = FinishUpdate(experiments, id, clock)
         /\ last' = FinishResponse(id, IsActive(id))
    /\ UNCHANGED <<experiment_variants, devices, clock, pending>>
    /\ UNCHANGED pureVars

\* the Authorization header of a PATCH request: absent, bytes that are no
\* visible ASCII, the configured token, another text
NoHeader == "(no header)"
OpaqueHeader == "(opaque bytes)"
AuthToken == "token"
WrongToken == "guess"
AuthHeaders == {NoHeader, OpaqueHeader, AuthToken, WrongToken}

\* a check that lets every request with an Authorization header through
AuthorizeAnyHeader(authorization, auth_token) ==
    IF authorization = NoHeader THEN "Unauthorized" ELSE "Ok"

\* the header test of patch_experiment
Authorize(authorization, auth_token) ==
    IF authorization = NoHeader THEN "Unauthorized"
    ELSE IF authorization = OpaqueHeader THEN "Unauthorized"
    ELSE IF authorization # auth_token THEN "Forbidden"
    ELSE "Ok"

\* PATCH /api/experiments/{id}: the header test of the handler, then
\* finish_experiment as in FinishExperiment
PatchExperiment ==
    /\ \E id \in KnownIds, authorization \in AuthHeaders :
         IF Authorize(authorization, AuthToken) # "Ok"
         THEN /\ last' = [op |-> "patch", id |-> id, authorization |-> authorization,
                          result |-> Authorize(authorization, AuthToken)]
              /\ UNCHANGED experiments
         ELSE /\ experiments' = FinishUpdate(experiments, id, clock)
              /\ last' = [op |-> "patch", id |-> id, authorization |-> authorization,
                          result |-> FinishResult(experiments, id)]
    /\ UNCHANGED <<experiment_variants, devices, clock, pending>>
    /\ UNCHANGED pureVars

\* the same handler in two steps, for requests that run concurrently: first
\* let now = Utc::now() ...
FinishBegin ==
    /\ InFlight < MaxInFlight
    /\ \E id \in KnownIds : pending' = Start(FinishRequest(id, clock, IsActive(id)))
    /\ UNCHANGED <<experiments, experiment_variants, devices, clock, last>>
    /\ UNCHANGED pureVars

\* ... then the UPDATE and Ok(id)
FinishExecute ==
    /\ \E c \in BagToSet(pending) :
         /\ experiments' = FinishUpdate(experiments, c.id, c.now)
         /\ last' = FinishResponse(c.id, c.began_active)
         /\ pending' = Finish(c)
    /\ UNCHANGED <<experiment_variants, devices, clock>>
    /\ UNCHANGED pureVars

\* the values of the x-device-id header: the two devices, the first of them
\* in upper case, the nil UUID and a text that is no UUID
DeviceTestUpper == "550E8400-E29B-41D4-A716-446655440000"
NilUuid == "00000000-0000-0000-0000-000000000000"
NotAUuid == "abracadabra"
RawDeviceIds == DeviceIds \cup {DeviceTestUpper, NilUuid, NotAUuid}

\* Uuid::try_parse followed by Display: the lower-case hyphenated form, or
\* "Err" for a text that is no UUID
UuidTryParse(raw_idfa) ==
    CASE raw_idfa = DeviceTestUpper -> DeviceTest
      [] raw_idfa = NotAUuid -> "Err"
      [] OTHER -> raw_idfa

\* a DeviceId::new that accepts the nil UUID
DeviceIdNewWithNil(raw_idfa) ==
    IF UuidTryParse(raw_idfa) = "Err" THEN [err |-> "DeviceIdError", id |-> raw_idfa]
    ELSE [err |-> "Ok", id |-> UuidTryParse(raw_idfa)]

DeviceIdNew(raw_idfa) ==
    IF UuidTryParse(raw_idfa) = "Err" THEN [err |-> "DeviceIdError", id |-> raw_idfa]
    ELSE IF UuidTryParse(raw_idfa) = NilUuid THEN [err |-> "DeviceIdError", id |-> raw_idfa]
    ELSE [err |-> "Ok", id |-> UuidTryParse(raw_idfa)]

\* an insert that replaces the row of a known device, so that every query
\* restarts its created_at
create_deviceReplace(rows, id, now) ==
    IF \E i \in 1..Len(rows) : rows[i].id = id
    THEN [err |-> "Duplicate",
          rows |-> [i \in 1..Len(rows) |->
                      IF rows[i].id = id THEN [id |-> id, created_at |-> now] ELSE rows[i]]]
    ELSE [err |-> "Ok", rows |-> Append(rows, [id |-> id, created_at |-> now])]

\* create_device: save_device inserts (id, Utc::now()); the insert of a known
\* id fails on the primary key and leaves the table as it was
create_device(rows, id, now) ==
    IF \E i \in 1..Len(rows) : rows[i].id = id
    THEN [err |-> "Duplicate", rows |-> rows]
    ELSE [err |-> "Ok", rows |-> Append(rows, [id |-> id, created_at |-> now])]

\* what get_all_device_participating_experiments returns for a device that
\* is already in the table: get_device_by_id, get_all_experiments, filter, map
KnownDeviceResponse(id) ==
    LET all == get_all_experiments
    IN IF all.err # "Ok" THEN [err |-> "Unknown", value |-> <<>>]
       ELSE [err |-> "Ok", value |-> DeviceExperiments(DeviceRow(id), all.value)]

\* the list get_all_device_participating_experiments returns: empty when
\* create_device succeeded, the filtered and mapped list otherwise
DeviceResponse(id, registered) ==
    IF registered THEN <<>> ELSE KnownDeviceResponse(id).value

\* GET /api/experiments with x-device-id:
\* Sqlite::get_all_device_participating_experiments
DeviceQuery ==
    /\ \E raw_idfa \in RawDeviceIds :
         IF DeviceIdNew(raw_idfa).err # "Ok"
         THEN \* DeviceId::new(device_id)? returns before the service is called
              /\ last' = [op |-> "devices", device |-> raw_idfa, registered |-> FALSE,
                          result |-> DeviceIdNew(raw_idfa).err]
              /\ UNCHANGED devices
         ELSE LET id == DeviceIdNew(raw_idfa).id
                  device == create_device(devices, id, clock)
              IN /\ devices' = device.rows
                 \* Ok: the new device gets the empty list; Duplicate: the
                 \* known device gets KnownDeviceResponse
                 /\ last' = [op |-> "devices", device |-> id,
                             registered |-> device.err = "Ok", result |-> "Ok"]
    /\ UNCHANGED <<experiments, experiment_variants, clock, pending>>
    /\ UNCHANGED pureVars

\* the same handler in two steps, for queries that run concurrently: first
\* DeviceId::new and, in save_device, let now = Utc::now() ...
DeviceBegin ==
    /\ InFlight < MaxInFlight
    /\ \E raw_idfa \in RawDeviceIds :
         IF DeviceIdNew(raw_idfa).err # "Ok"
         THEN /\ last' = [op |-> "devices", device |-> raw_idfa, registered |-> FALSE,
                          result |-> DeviceIdNew(raw_idfa).err]
              /\ UNCHANGED pending
         ELSE /\ pending' = Start([device |-> DeviceIdNew(raw_idfa).id, now |-> clock])
              /\ UNCHANGED last
    /\ UNCHANGED <<experiments, experiment_variants, devices, clock>>
    /\ UNCHANGED pureVars

\* ... then the INSERT, which SQLite runs one at a time, and the answer
DeviceInsert ==
    /\ \E c \in BagToSet(pending) :
         LET device == create_device(devices, c.device, c.now)
         IN /\ devices' = device.rows
            /\ last' = [op |-> "devices", device |-> c.device,
                        registered |-> device.err = "Ok", result |-> "Ok", now |-> c.now]
            /\ pending' = Finish(c)
    /\ UNCHANGED <<experiments, experiment_variants, clock>>
    /\ UNCHANGED pureVars

\* GET /api/experiments without a device id
GetExperiments ==
    /\ last' = [op |-> "list"]
    /\ UNCHANGED <<experiments, experiment_variants, devices, clock, pending>>
    /\ UNCHANGED pureVars

\* GET /api/statistics: get_all_devices, then Service::get_statistics(devices)
GetStatistics ==
    /\ last' = [op |-> "stats"]
    /\ UNCHANGED <<experiments, experiment_variants, devices, clock, pending>>
    /\ UNCHANGED pureVars

Next ==
    \/ Tick
    \/ CreateExperiment
    \/ FinishExperiment
    \/ DeviceQuery
    \/ GetExperiments
    \/ GetStatistics

Spec == Init /\ [][Next]_vars

\* concurrent finish requests
RaceNext ==
    \/ Tick
    \/ CreateExperiment
    \/ FinishBegin
    \/ FinishExecute

RaceSpec == Init /\ [][RaceNext]_vars

\* the requests that write a table, and the statistics
StatisticsNext ==
    \/ Tick
    \/ CreateExperiment
    \/ FinishExperiment
    \/ DeviceQuery
    \/ GetStatistics

StatisticsSpec == Init /\ [][StatisticsNext]_vars

\* the PATCH handler with its header test
PatchNext ==
    \/ Tick
    \/ CreateExperiment
    \/ PatchExperiment

PatchSpec == Init /\ [][PatchNext]_vars

\* concurrent device queries
DeviceRaceNext ==
    \/ Tick
    \/ DeviceBegin
    \/ DeviceInsert

DeviceRaceSpec == Init /\ [][DeviceRaceNext]_vars

\* the requests that write a table, and the device query
QueryNext ==
    \/ Tick
    \/ CreateExperiment
    \/ FinishExperiment
    \/ DeviceQuery

QuerySpec == Init /\ [][QueryNext]_vars

(***************************************************************************)
(* Properties.                                                             *)
(***************************************************************************)

\* C2: assign_variant on a validated ExperimentVariants returns the data of
\* one of the configured variants for every identity, whatever its score
\* (it neither panics nor returns anything else).
C2_AssignmentCoverage ==
    assigned # "none" => \E i \in 1..Len(body) : assigned = body[i].data

\* the walk ran out (33.3 * 3 sums to 99.9 and the score is above it) and the
\* last variant was returned
C2_Witness ==
    /\ identity = DeviceTail
    /\ Len(body) = 3
    /\ \A i \in 1..3 : body[i].distribution = 333
    /\ assigned = body[3].data

RECURSIVE DecimalSum(_, _)
\* the sum of the decimal literals of body[i..], in tenths
DecimalSum(b, i) == IF i > Len(b) THEN 0 ELSE b[i].distribution + DecimalSum(b, i + 1)

WithinTolerance(b) == DecimalSum(b, 1) >= 998 /\ DecimalSum(b, 1) <= 1002

\* C3: ExperimentVariants::new succeeds exactly when the sequence is not
\* empty and the sum of its distributions is within 0.2 of 100.0, bounds
\* included; otherwise it fails with DistributionSumError.
C3_SumWithinTolerance ==
    parsed \notin {"pending", "VariantDistributionInvalidError"} =>
        /\ parsed \in {"Ok", "DistributionSumError"}
        /\ parsed = "Ok" <=> (body # <<>> /\ WithinTolerance(body))

\* C4: a finish request on an experiment whose finished_at is already set
\* fails with FinishExperimentError::Finished.
C4_SecondFinishFails ==
    (last.op = "finish" /\ last.was_finished) => last.result = "Finished"

\* C5: a finish request for an id no experiment has fails with NotFound and
\* changes no finished_at.
C5_FinishUnknownNotFound ==
    (last.op = "finish" /\ ~ last.existed) => last.result = "NotFound"

\* C6: once finished_at of an experiment is Some(t), no later step changes it.
C6_FinishedAtSetOnce ==
    [][\A i \in 1..Len(experiments) :
          experiments[i].finished_at # NULL =>
              experiments'[i].finished_at = experiments[i].finished_at]_vars

\* C7: of two finish requests that both began while the experiment was
\* active, the one whose UPDATE runs second gets the already-finished outcome.
C7_RaceHasOneWinner ==
    (last.op = "finish" /\ last.began_active /\ last.was_finished) =>
        last.result = "Finished"

\* C8: an experiment is created with finished_at = None, and a finished_at
\* that is Some never becomes None again, whatever request runs.
C8_LifecycleOneWay ==
    [][/\ \A i \in 1..Len(experiments) :
            /\ i <= Len(experiments')
            /\ experiments'[i].id = experiments[i].id
            /\ experiments[i].finished_at # NULL => experiments'[i].finished_at # NULL
       /\ \A i \in (Len(experiments) + 1)..Len(experiments') :
            experiments'[i].finished_at = NULL]_vars

\* a finished experiment, after a second finish request on it
C8_Witness ==
    /\ last.op = "finish"
    /\ last.was_finished
    /\ IsFinished(last.id)

\* the entry of get_statistics(devs) for experiment id
StatisticsEntry(devs, id) ==
    LET stats == get_statistics(devs).value
    IN stats[CHOOSE i \in 1..Len(stats) : stats[i].id = id]

\* C9: whenever the live device query returns an experiment to a device, the
\* statistics count that device for that experiment, and count it under the
\* variants that carry the returned data and under no other.
C9_StatisticsConsistency ==
    \A d \in 1..Len(devices) :
        LET live == KnownDeviceResponse(devices[d].id).value
        IN \A k \in 1..Len(live) :
              LET entry == StatisticsEntry(<<devices[d]>>, live[k].id)
                  all == StatisticsEntry(get_all_devices, live[k].id)
              IN /\ entry.total_devices = 1
                 /\ \A v \in 1..Len(entry.variants) :
                       /\ entry.variants[v].total_devices = 1
                            <=> entry.variants[v].data = live[k].data
                       /\ entry.variants[v].data = live[k].data
                            => all.variants[v].total_devices >= 1

\* the statistics were requested while both devices have a live experiment,
\* under different variants
C9_Witness ==
    /\ last.op = "stats"
    /\ \E d1, d2 \in 1..Len(devices) :
          LET live1 == KnownDeviceResponse(devices[d1].id).value
              live2 == KnownDeviceResponse(devices[d2].id).value
          IN /\ live1 # <<>>
             /\ live2 # <<>>
             /\ live1[1].id = live2[1].id
             /\ live1[1].data # live2[1].data

\* the DeviceExperiment that the map of the device query builds for device
\* row d and experiment row e, from the variants as they are reloaded
Shown(d, e) ==
    DeviceExperimentOf(devices[d],
                       [id |-> experiments[e].id, name |-> experiments[e].name,
                        variants |-> SelectVariants(experiments[e].id)])

\* C10: the VariantData a live device query reports to a device for an
\* experiment is the same before and after every step, for every registered
\* device and every stored experiment; so all queries of the device that
\* include the experiment report the same data, whatever ran between them.
C10_StableAssignment ==
    [][\A d \in 1..Len(devices), e \in 1..Len(experiments) :
          /\ devices'[d].id = devices[d].id
          /\ experiments'[e].id = experiments[e].id
          /\ Shown(d, e)'.data = Shown(d, e).data]_vars

\* a device registered at clock 0 is answered at a later clock with an
\* experiment created at clock 0
C10_Witness ==
    /\ last.op = "devices" /\ last.result = "Ok"
    /\ ~ last.registered
    /\ clock > 0
    /\ DeviceRow(last.device).created_at = 0
    /\ \E k \in 1..Len(KnownDeviceResponse(last.device).value) :
          ExperimentRow(KnownDeviceResponse(last.device).value[k].id).created_at = 0

\* the variant sequence get_all_experiments rebuilds for experiment row e
Reconstructed(e) == SelectVariants(experiments[e].id)

LiveOf(d) == KnownDeviceResponse(devices[d].id).value

C14_NoFinishedInLiveQuery ==
    \A d \in 1..Len(devices) : \A k \in 1..Len(LiveOf(d)) :
        ExperimentRow(LiveOf(d)[k].id).finished_at = NULL

\* a known device queries after an experiment it would otherwise be shown
\* (created at or after the device) was finished, and gets no entry for it
C14_Witness ==
    /\ last.op = "devices" /\ ~ last.registered
    /\ \E d \in 1..Len(devices) : \E e \in 1..Len(experiments) :
          /\ devices[d].id = last.device
          /\ experiments[e].created_at >= devices[d].created_at
          /\ experiments[e].finished_at # NULL
          /\ \A k \in 1..Len(LiveOf(d)) : LiveOf(d)[k].id # experiments[e].id

EntriesFor(entries, id) == Cardinality({i \in 1..Len(entries) : entries[i].id = id})

\* C15: a finished experiment has exactly one entry in the list of all
\* experiments and exactly one entry in the statistics.
C15_FinishedStaysListed ==
    \A e \in 1..Len(experiments) :
        experiments[e].finished_at # NULL
          => /\ get_all_experiments.err = "Ok"
             /\ EntriesFor(get_all_experiments.value, experiments[e].id) = 1
             /\ get_statistics(get_all_devices).err = "Ok"
             /\ EntriesFor(get_statistics(get_all_devices).value, experiments[e].id) = 1

\* the statistics are requested after an experiment with a participant was
\* finished: both lists hold its entry, and the entry still counts the device
C15_Witness ==
    /\ last.op = "stats"
    /\ \E e \in 1..Len(experiments) :
          /\ experiments[e].finished_at # NULL
          /\ EntriesFor(get_all_experiments.value, experiments[e].id) = 1
          /\ StatisticsEntry(get_all_devices, experiments[e].id).total_devices >= 1

\* C16: the first device query of an unknown id adds a device row for it whose
\* created_at is the time of that query; every other step, later queries of
\* the same id included, leaves the rows of the known devices as they are.
C16_FirstSeenIsFixed ==
    [][/\ Len(devices') >= Len(devices)
       /\ \A d \in 1..Len(devices) : devices'[d] = devices[d]
       /\ Len(devices') > Len(devices)
            => /\ last'.op = "devices" /\ last'.registered
               /\ ~ HasDevice(last'.device)
               /\ devices' = Append(devices, [id |-> last'.device, created_at |-> clock])
       /\ (last'.op = "devices" /\ HasDevice(last'.device))
            => devices' = devices]_vars

\* a device first seen at time 0 queries again at a later time and is still
\* stored with created_at 0
C16_Witness ==
    /\ last.op = "devices" /\ ~ last.registered
    /\ clock > 0
    /\ \E d \in 1..Len(devices) : devices[d].id = last.device /\ devices[d].created_at = 0

\* C17: when no device is eligible for an experiment (total_devices = 0), the
\* statistics report a defined percentage_devices for each of its variants:
\* the division by zero is not performed, so no percentage is NaN.
C17_ZeroDevicesPercentageDefined ==
    get_statistics(get_all_devices).err = "Ok"
      => \A i \in 1..Len(get_statistics(get_all_devices).value) :
           LET entry == get_statistics(get_all_devices).value[i]
           IN entry.total_devices = 0
                => \A v \in 1..Len(entry.variants) :
                     entry.variants[v].percentage_devices # "NaN"

\* C18: the statistics hold one entry per stored experiment, in the order of
\* the experiments, and the entry of an experiment holds one variant entry
\* per variant of the experiment, in the order of its variants, whether or
\* not a device is assigned to the variant.
C18_StatisticsShape ==
    LET all == get_all_experiments.value
        stats == get_statistics(get_all_devices)
    IN /\ stats.err = "Ok"
       /\ Len(stats.value) = Len(experiments)
       /\ \A i \in 1..Len(stats.value) :
            /\ stats.value[i].id = experiments[i].id
            /\ Len(stats.value[i].variants) = Len(all[i].variants)
            /\ \A v \in 1..Len(all[i].variants) :
                 stats.value[i].variants[v].data = all[i].variants[v].data

\* the statistics are requested for an experiment of three variants with a
\* participant: a variant no device is assigned to is reported with count 0
C18_Witness ==
    /\ last.op = "stats"
    /\ \E e \in 1..Len(experiments) :
          LET entry == StatisticsEntry(get_all_devices, experiments[e].id)
          IN /\ entry.total_devices >= 1
             /\ Len(entry.variants) = 3
             /\ \E v \in 1..3 : entry.variants[v].total_devices = 0
             /\ \E v \in 1..3 : entry.variants[v].total_devices >= 1

\* cumulative after the first i variants, accumulated as the walk does
Cumulative(variants, i) ==
    SumFrom([k \in 1..i |-> F64(variants[k].distribution)], 1, F64Zero)

Score == Normalized(Sha256First8(identity))

\* C20 as stated: the normalized score of every identity is at least 0 and
\* strictly below 100.
C20_ScoreBelowHundred ==
    assigned # "none" => (~ F64Lt(Score, F64Zero)) /\ F64Lt(Score, F64Hundred)

\* C20 amended: the normalized score of every identity is at least 0 and at
\* most 100.
C20_ScoreAtMostHundred ==
    assigned # "none" => (~ F64Lt(Score, F64Zero)) /\ (~ F64Lt(F64Hundred, Score))

\* the first 8 bytes of the digest are all ones: the score is exactly 100.0,
\* and a variant is assigned
C20_Witness ==
    /\ identity = DigestMax
    /\ Score = F64Hundred
    /\ \E i \in 1..Len(body) : assigned = body[i].data

NamesUnique ==
    \A i, j \in 1..Len(experiments) : experiments[i].name = experiments[j].name => i = j

\* C21: a create request whose name a stored experiment already has fails
\* with Duplicate and leaves the experiments and their variants as they were;
\* a create that adds a row adds one whose name no stored experiment had, so
\* the names of the stored experiments stay pairwise different.
C21_DuplicateNameRejected ==
    [][/\ (last'.op = "create" /\ last'.result = "Duplicate")
            => /\ NameTaken(experiments, last'.name)
               /\ experiments' = experiments
               /\ experiment_variants' = experiment_variants
       /\ (last'.op = "create" /\ last' # last /\ last'.result \in {"Ok", "Duplicate"})
            => (last'.result = "Duplicate" <=> NameTaken(experiments, last'.name))
       /\ Len(experiments') > Len(experiments)
            => ~ NameTaken(experiments, experiments'[Len(experiments')].name)
       /\ NamesUnique']_vars

\* a create with the name of a stored experiment was answered Duplicate, and
\* the experiment still has its three variant rows
C21_Witness ==
    /\ last.op = "create" /\ last.result = "Duplicate"
    /\ \E e \in 1..Len(experiments) :
          /\ experiments[e].name = last.name
          /\ Len(SelectVariants(experiments[e].id)) = 3
    /\ Len(experiment_variants) = 3 * Len(experiments)

InRange(n) == 0 < n /\ n <= 1000

\* C23: VariantDistribution::new accepts a value exactly when 0 < value <= 100,
\* so every variant of a constructed ExperimentVariants has a distribution in
\* (0, 100].
C23_DistributionInRange ==
    parsed # "pending"
      => /\ \A i \in 1..Len(body) :
              VariantDistributionNew(F64(body[i].distribution)) = "Ok"
                <=> InRange(body[i].distribution)
         /\ parsed = "Ok" => \A i \in 1..Len(body) : InRange(body[i].distribution)
         /\ (\E i \in 1..Len(body) : ~ InRange(body[i].distribution))
              => parsed = "VariantDistributionInvalidError"

\* a body with the distribution 0 was rejected
C23_WitnessZero ==
    /\ parsed = "VariantDistributionInvalidError"
    /\ \E i \in 1..Len(body) : body[i].distribution = 0

\* C24: when the score of the identity is not below the cumulative sum of
\* all the distributions, assign_variant returns the data of the last variant.
C24_TailFallback ==
    (assigned # "none" /\ ~ F64Lt(Score, Cumulative(body, Len(body))))
      => assigned = body[Len(body)].data

\* three variants of 33.3 sum to 99.9 and the score of the device is above
\* that: the third variant is returned
C24_Witness ==
    /\ identity = DeviceTail
    /\ Len(body) = 3
    /\ \A i \in 1..3 : body[i].distribution = 333
    /\ ~ F64Lt(Score, Cumulative(body, 3))
    /\ F64Lt(Score, F64Hundred)
    /\ assigned = body[3].data /\ assigned # body[1].data

\* the devices get_statistics takes as participants of the experiment
Eligible(exp) ==
    {d \in 1..Len(devices) : exp.created_at >= devices[d].created_at}

\* C25: in the statistics, total_devices of an experiment is the number of
\* its eligible devices, and total_devices of each of its variants is the
\* number of eligible devices that assign_variant gives the data of that
\* variant.
C25_StatisticsCounts ==
    LET all == get_all_experiments.value
        stats == get_statistics(get_all_devices).value
    IN \A e \in 1..Len(stats) :
         LET eligible == Eligible(all[e])
             data == [d \in eligible |-> assign_variant(all[e].variants, devices[d].id)]
         IN /\ stats[e].total_devices = Cardinality(eligible)
            /\ \A v \in 1..Len(stats[e].variants) :
                 stats[e].variants[v].total_devices
                   = Cardinality({d \in eligible : data[d] = all[e].variants[v].data})

\* the statistics are requested with one eligible and one later device: the
\* experiment counts one device, under one of its variants
C25_Witness ==
    /\ last.op = "stats"
    /\ Len(devices) = 2
    /\ \E e \in 1..Len(experiments) :
          LET entry == StatisticsEntry(get_all_devices, experiments[e].id)
          IN /\ entry.total_devices = 1
             /\ \E v \in 1..Len(entry.variants) : entry.variants[v].total_devices = 1

\* the experiment passes the filters of the device query for the device
PassesFilters(exp, device) ==
    exp.created_at >= device.created_at /\ exp.finished_at = NULL

\* C26: the answer to every device query, the registering one included,
\* holds exactly one entry for each experiment that passes the eligibility
\* and not-finished filters, with the id, the name and the assigned data of
\* the experiment, and no other entry.
C26_QueryReturnsAllEligible ==
    (last.op = "devices" /\ last.result = "Ok")
      => LET device == DeviceRow(last.device)
             all == get_all_experiments.value
             response == DeviceResponse(last.device, last.registered)
         IN /\ \A e \in 1..Len(all) :
                 Cardinality({k \in 1..Len(response) : response[k].id = all[e].id})
                   = IF PassesFilters(all[e], device) THEN 1 ELSE 0
            /\ \A k \in 1..Len(response) : \E e \in 1..Len(all) :
                 /\ response[k].id = all[e].id
                 /\ response[k].name = all[e].name
                 /\ response[k].data = assign_variant(all[e].variants, last.device)

\* C27: no step removes an experiment or changes the id, the name, the
\* created_at or the variants of a stored experiment; a step that changes a
\* finished_at is a finish request; device queries, listings and statistics
\* change nothing of the experiments and their variants.
C27_ExperimentsFrame ==
    [][/\ Len(experiments') >= Len(experiments)
       /\ \A e \in 1..Len(experiments) :
            /\ experiments'[e].id = experiments[e].id
            /\ experiments'[e].name = experiments[e].name
            /\ experiments'[e].created_at = experiments[e].created_at
            /\ Reconstructed(e)' = Reconstructed(e)
            /\ experiments'[e].finished_at # experiments[e].finished_at
                 => (last'.op = "finish" /\ last'.id = experiments[e].id)
       /\ last'.op \in {"devices", "list", "stats"}
            => (experiments' = experiments /\ experiment_variants' = experiment_variants)]_vars

\* statistics were requested after an experiment was created, a device was
\* registered and the experiment was finished: the experiment still has its
\* name, its creation time and its three variants
C27_Witness ==
    /\ last.op = "stats"
    /\ clock > 0
    /\ Len(devices) >= 1
    /\ \E e \in 1..Len(experiments) :
          /\ experiments[e].finished_at = clock
          /\ experiments[e].created_at = 0
          /\ experiments[e].name = "price"
          /\ Reconstructed(e) = BodyUrl

\* get_statistics on one experiment with the variants of body and the two
\* devices, both participants
PureStatistics ==
    StatisticsOf([id |-> 1, name |-> "price", variants |-> body, created_at |-> 0,
                  finished_at |-> NULL],
                 <<[id |-> DeviceTest, created_at |-> 0], [id |-> DeviceTail, created_at |-> 0]>>)

RECURSIVE SumTotals(_, _)
\* the sum of total_devices over the variant entries i.. of the statistics
SumTotals(variants, i) ==
    IF i > Len(variants) THEN 0 ELSE variants[i].total_devices + SumTotals(variants, i + 1)

\* C28: in the statistics of an experiment, the total_devices of its variants
\* add up to the total_devices of the experiment, for every accepted variant
\* sequence, those with equal data in two variants included.
C28_VariantTotalsAddUp ==
    parsed = "Ok" => SumTotals(PureStatistics.variants, 1) = PureStatistics.total_devices

\* C29: when device queries for one unknown id run concurrently, the id gets
\* one device row, written by the query whose insert succeeded with the time
\* that query read, every such query is answered without an error, and the
\* row is not changed by the queries that lost.
C29_ConcurrentFirstQueries ==
    [][/\ \A i, j \in 1..Len(devices') : devices'[i].id = devices'[j].id => i = j
       /\ \A d \in 1..Len(devices) : devices'[d] = devices[d]
       /\ Len(devices') > Len(devices)
            => /\ last'.registered /\ last'.result = "Ok"
               /\ devices' = Append(devices, [id |-> last'.device, created_at |-> last'.now])
       /\ (pending' # pending /\ InFlight' < InFlight)
            => /\ last'.op = "devices" /\ last'.result = "Ok"
               /\ \E d \in 1..Len(devices') : devices'[d].id = last'.device]_vars

\* two queries for an unknown id were in flight together; the one that read
\* the clock later inserted first, and the other was answered as a known
\* device without changing the row
C29_Witness ==
    /\ InFlight = 0
    /\ last.op = "devices" /\ last.result = "Ok" /\ ~ last.registered
    /\ \E d \in 1..Len(devices) :
          /\ devices[d].id = last.device
          /\ devices[d].created_at > last.now

\* C30: a step that sets or changes a finished_at belongs to a PATCH request
\* whose Authorization header is the configured token; a PATCH request
\* without the header is answered Unauthorized, one with another token
\* Forbidden, and neither changes an experiment.
C30_FinishNeedsToken ==
    [][/\ (\E e \in 1..Len(experiments) :
              experiments'[e].finished_at # experiments[e].finished_at)
            => (last'.op = "patch" /\ last'.authorization = AuthToken)
       /\ (last'.op = "patch" /\ last'.authorization = NoHeader)
            => (last'.result = "Unauthorized" /\ experiments' = experiments)
       /\ (last'.op = "patch" /\ last'.authorization = WrongToken)
            => (last'.result = "Forbidden" /\ experiments' = experiments)
       /\ (last'.op = "patch" /\ last'.authorization = AuthToken)
            => last'.result \notin {"Unauthorized", "Forbidden"}]_vars

\* a PATCH with a wrong token named an active experiment, was answered
\* Forbidden, and the experiment is still active
C30_Witness ==
    /\ last.op = "patch" /\ last.authorization = WrongToken /\ last.result = "Forbidden"
    /\ IsActive(last.id)

====
